---- MODULE Spec2Model ----
(***************************************************************************)
(* Session orchestration core of the LINE chat relay (src/main.py):        *)
(* handle_text_message, handle_audio_message, the per-user model table,    *)
(* the credential store and the conversation memory they drive.            *)
(*                                                                         *)
(* Texts, contents and messages are sequences of words (strings), so that  *)
(* text.startswith(p), text[n:] and str(e).startswith(p) are computed on   *)
(* the value and not assumed.                                              *)
(***************************************************************************)
EXTENDS Integers, Sequences, FiniteSets, TLC

VARIABLES
    storage,           \* Memory: user -> retained (role, content) turns
    system_messages,   \* Memory: user -> system instruction
    model_management,  \* main.py:36  user -> api key of the bound model, or NoModel
    db,                \* Credential Store content: user -> api key, or NoModel
    ev,                \* the last handled event and what the handler did (observer)
    appended,          \* observer for the Memory laws: turns appended since the last clear
    threads            \* SpecThreads: the request threads of the server, each at a line

vars == <<storage, system_messages, model_management, db, ev, appended, threads>>

----------------------------------------------------------------------------
(* Bounds *)

\* Longest sequence of Memory.append calls explored per user in SpecMem.
MaxAppends == 5

\* Events each request thread handles in SpecThreads.
MaxRequests == 2

----------------------------------------------------------------------------
(* Configuration, main.py:26-37 *)

\* Memory(..., memory_message_count=2): the retained-exchange count K.
memory_message_count_low == 2 - 1
memory_message_count_high == 2 + 1
memory_message_count == 2

DEFAULT_SYSTEM_MESSAGE == <<"patient teacher">>

Users == {"u1", "u2"}
Tokens == {<<"sk-1">>, <<"sk-2">>}
NoModel == <<"<absent>">>

----------------------------------------------------------------------------
(* Command prefixes of handle_text_message (the Chinese literals of the    *)
(* source, rendered in ASCII)                                              *)

CmdRegister == "/register"   \* '/註冊'
CmdHelp == "/help"           \* '/指令說明'
CmdSystem == "/system"       \* '/系統訊息'
CmdClear == "/clear"         \* '/清除'
CmdImage == "/image"         \* '/圖像'

YoutubeUrl == "https://youtu.be/v"
WebUrl == "https://example.com/p"

\* The texts an event may carry.
Texts ==
    {<<CmdRegister>> \o t : t \in Tokens}
    \cup {<<CmdHelp>>, <<CmdClear>>, <<CmdSystem, "pirate">>, <<CmdImage, "cat">>}
    \cup {<<CmdHelp, CmdClear>>}
    \cup {<<"hello">>, <<"see", YoutubeUrl>>, <<"read", WebUrl>>}

\* The events explored per user: "u1" sends every text and audio, the second
\* user only free text (enough to give it a history of its own).
TextsOf(u) == IF u = "u1" THEN Texts ELSE {<<"hello">>}
AudioUsers == {"u1"}

\* str.startswith on word sequences.
startswith(text, prefix) ==
    /\ Len(text) >= Len(prefix)
    /\ SubSeq(text, 1, Len(prefix)) = prefix

\* text[n:].strip() after a command prefix of one word.
AfterPrefix(text) == SubSeq(text, 2, Len(text))

----------------------------------------------------------------------------
(* Conversation Memory (src/memory.py is not among the sources; modelled   *)
(* from the specification, section 4.2)                                    *)

Entry(role, content) == [role |-> role, content |-> content]

\* append: add the turn, then drop the oldest pair once 2K is exceeded.
Memory_append(h, role, content) ==
    LET h2 == Append(h, Entry(role, content))
    IN  IF Len(h2) > 2 * memory_message_count
        THEN SubSeq(h2, 3, Len(h2))
        ELSE h2

\* get: the system instruction synthesized as the first entry.
Memory_get(h, sysmsg) == <<Entry("system", sysmsg)>> \o h

\* remove (clear): empty history.
Memory_remove(h) == <<>>

\* change_system_message: overwrite the user's system instruction.
Memory_change_system_message(sysmsg, text) == text

----------------------------------------------------------------------------
(* Values exchanged with the collaborators *)

TextSendMessage(text) == [type |-> "text", text |-> text]
ImageSendMessage(url) == [type |-> "image", text |-> url]
NoMsg == [type |-> "none", text |-> <<>>]

Raise(type, msg) == [type |-> type, msg |-> msg]
NoExc == Raise("none", <<>>)

\* Outcome of one backend capability call: success, or the class of the
\* error_message it reports.
BackendOutcomes == {"ok", "auth", "overload", "other"}

ErrorMessage(be) ==
    CASE be = "auth" -> <<"Incorrect API key provided", "sk-x">>
      [] be = "overload" -> <<"That model is currently overloaded", "retry">>
      [] OTHER -> <<"Rate limit reached">>

\* get_role_and_content(response) of a chat completion / of a summary.
ChatAnswer == <<"answer">>
Summary == <<"summary">>
ImageUrl == <<"https://img/1.png">>
Transcript == <<"transcript">>

\* website.get_url_from_text(text): the first URL in the text, <<>> if none.
get_url_from_text(text) ==
    LET idx == {i \in 1..Len(text) : text[i] \in {YoutubeUrl, WebUrl}}
    IN  IF idx = {} THEN <<>>
        ELSE <<text[CHOOSE i \in idx : \A j \in idx : i <= j]>>

\* youtube.retrieve_video_id(text): truthy iff the text holds a video URL.
retrieve_video_id(text) == \E i \in 1..Len(text) : text[i] = YoutubeUrl

----------------------------------------------------------------------------
(* Replies of main.py *)

MsgRegistered == TextSendMessage(<<"token valid, registered">>)            \* l.66
MsgHelp == TextSendMessage(<<"commands:", "/register", "/system", "/clear", "/image">>) \* l.69
MsgSystemUpdated == TextSendMessage(<<"system message updated">>)          \* l.73
MsgCleared == TextSendMessage(<<"history cleared">>)                       \* l.77
MsgInvalidToken == TextSendMessage(<<"token invalid, register again">>)    \* l.117
MsgPleaseRegister == TextSendMessage(<<"please register a token first">>)  \* l.119
MsgReRegister == TextSendMessage(<<"API token wrong, register again">>)    \* l.123
MsgOverloaded == TextSendMessage(<<"model overloaded, try later">>)        \* l.125
MsgError(e) == TextSendMessage(<<"error:">> \o e.msg)                      \* l.127
MsgAudioError(e) == TextSendMessage(<<"warning:">> \o e.msg)               \* l.152

----------------------------------------------------------------------------
(* The session of one user, and the running result of a handler's try      *)
(* block: the session as changed so far, the message built, the exception  *)
(* raised (if any), the side effects in the order they happened and the    *)
(* messages handed to chat_completions (if it was called).                 *)

Session(u) ==
    [hist |-> storage[u], sys |-> system_messages[u],
     mm |-> model_management[u], db |-> db[u]]

Start(s) ==
    [hist |-> s.hist, sys |-> s.sys, mm |-> s.mm, db |-> s.db,
     msg |-> NoMsg, exc |-> NoExc, trace |-> <<>>, prompt |-> <<>>]

Did(t, what) == [t EXCEPT !.trace = Append(@, what)]

----------------------------------------------------------------------------
(* handle_text_message, main.py:51-129: the branches of the try block      *)

\* A variant of TryRegister that binds the model before validating the token.
TryRegister_BindFirst(s, text, valid, save) ==
    LET api_key == AfterPrefix(text)
        t1 == Did(Did([Start(s) EXCEPT !.mm = api_key], "bind"), "check_token_valid")
    IN  IF ~valid
        THEN [t1 EXCEPT !.exc = Raise("ValueError", <<"Invalid API token">>)]
        ELSE LET t3 == Did(t1, "save")
             IN  IF save = "ok"
                 THEN [t3 EXCEPT !.db = api_key, !.msg = MsgRegistered]
                 ELSE [t3 EXCEPT !.exc = Raise("Exception", <<"save failed">>)]

\* A variant of TryRegister that binds the model and replies success without
\* writing the Credential Store.
TryRegister_NoSave(s, text, valid, save) ==
    LET api_key == AfterPrefix(text)
        t1 == Did(Start(s), "check_token_valid")
    IN  IF ~valid
        THEN [t1 EXCEPT !.exc = Raise("ValueError", <<"Invalid API token">>)]
        ELSE [Did(t1, "bind") EXCEPT !.mm = api_key, !.msg = MsgRegistered]

\* l.58-66  '/register <token>'
TryRegister(s, text, valid, save) ==
    LET api_key == AfterPrefix(text)
        t1 == Did(Start(s), "check_token_valid")
    IN  IF ~valid
        THEN [t1 EXCEPT !.exc = Raise("ValueError", <<"Invalid API token">>)]
        ELSE LET t2 == Did([t1 EXCEPT !.mm = api_key], "bind")
                 t3 == Did(t2, "save")
             IN  IF save = "ok"
                 THEN [t3 EXCEPT !.db = api_key, !.msg = MsgRegistered]
                 ELSE [t3 EXCEPT !.exc = Raise("Exception", <<"save failed">>)]

\* l.68-69  '/help'
TryHelp(s) == [Start(s) EXCEPT !.msg = MsgHelp]

\* A variant of TrySystem that looks the user's model up first, as the
\* '/image' and default branches do.
TrySystem_RequiresModel(s, text) ==
    IF s.mm = NoModel
    THEN [Start(s) EXCEPT !.exc = Raise("KeyError", <<"user_id">>)]
    ELSE LET t1 == Did(Start(s), "change_system_message")
         IN  [t1 EXCEPT !.sys = Memory_change_system_message(s.sys, AfterPrefix(text)),
                        !.msg = MsgSystemUpdated]

\* l.71-73  '/system <text>'
TrySystem(s, text) ==
    LET t1 == Did(Start(s), "change_system_message")
    IN  [t1 EXCEPT !.sys = Memory_change_system_message(s.sys, AfterPrefix(text)),
                   !.msg = MsgSystemUpdated]

\* A variant of TryClear that acknowledges without emptying the history.
TryClear_Skip(s) == [Start(s) EXCEPT !.msg = MsgCleared]

\* l.75-77  '/clear'
TryClear(s) ==
    LET t1 == Did(Start(s), "remove")
    IN  [t1 EXCEPT !.hist = Memory_remove(s.hist), !.msg = MsgCleared]

\* l.79-87  '/image <prompt>': the prompt is appended before the model lookup.
TryImage(s, text, be) ==
    LET prompt == AfterPrefix(text)
        t1 == Did([Start(s) EXCEPT !.hist = Memory_append(s.hist, "user", prompt)],
                  "append_user")
    IN  IF s.mm = NoModel
        THEN [t1 EXCEPT !.exc = Raise("KeyError", <<"user_id">>)]
        ELSE LET t2 == Did(t1, "image_generations")
             IN  IF be # "ok"
                 THEN [t2 EXCEPT !.exc = Raise("Exception", ErrorMessage(be))]
                 ELSE LET t3 == [t2 EXCEPT !.msg = ImageSendMessage(ImageUrl)]
                      IN  Did([t3 EXCEPT !.hist =
                                   Memory_append(t2.hist, "assistant", ImageUrl)],
                              "append_assistant")

\* A variant of FinishCompletion that appends the assistant turn before it
\* tests is_successful.
FinishCompletion_AppendBeforeCheck(t, be, response) ==
    LET t1 == Did([t EXCEPT !.hist = Memory_append(t.hist, "assistant", response)],
                  "append_assistant")
    IN  IF be # "ok"
        THEN [t1 EXCEPT !.exc = Raise("Exception", ErrorMessage(be))]
        ELSE [t1 EXCEPT !.msg = TextSendMessage(response)]

\* l.109-114: the common tail of the default branch, given the tri-state result.
FinishCompletion(t, be, response) ==
    IF be # "ok"
    THEN [t EXCEPT !.exc = Raise("Exception", ErrorMessage(be))]
    ELSE LET t1 == [t EXCEPT !.msg = TextSendMessage(response)]
         IN  Did([t1 EXCEPT !.hist = Memory_append(t.hist, "assistant", response)],
                 "append_assistant")

\* A variant of TryDefault that appends the user turn before the model lookup
\* (the order the '/image' branch uses).
TryDefault_AppendFirst(s, text, ext, be) ==
    LET t1 == Did([Start(s) EXCEPT !.hist = Memory_append(s.hist, "user", text)],
                  "append_user")
        url == get_url_from_text(text)
    IN  IF s.mm = NoModel
        THEN [t1 EXCEPT !.exc = Raise("KeyError", <<"user_id">>)]
        ELSE IF url # <<>>
        THEN IF retrieve_video_id(text)
             THEN LET t2 == Did(t1, "get_transcript_chunks")
                  IN  IF ext # "ok"
                      THEN [t2 EXCEPT !.exc =
                                Raise("Exception", <<"transcript unavailable">>)]
                      ELSE FinishCompletion(Did(t2, "summarize"), be, Summary)
             ELSE LET t2 == Did(t1, "get_content_from_url")
                  IN  IF ext # "ok"
                      THEN [t2 EXCEPT !.exc =
                                Raise("Exception", <<"cannot fetch website content">>)]
                      ELSE FinishCompletion(Did(t2, "summarize"), be, Summary)
        ELSE FinishCompletion(
                 Did([t1 EXCEPT !.prompt = Memory_get(t1.hist, t1.sys)],
                     "chat_completions"),
                 be, ChatAnswer)

\* A variant of TryDefault whose readers record a chunk summary in the history
\* before the final summary is appended.
TryDefault_AppendChunks(s, text, ext, be) ==
    IF s.mm = NoModel
    THEN [Start(s) EXCEPT !.exc = Raise("KeyError", <<"user_id">>)]
    ELSE
    LET t1 == Did([Start(s) EXCEPT !.hist = Memory_append(s.hist, "user", text)],
                  "append_user")
        url == get_url_from_text(text)
        Read(t) == Did([t EXCEPT !.hist =
                            Memory_append(t.hist, "assistant", <<"chunk summary">>)],
                       "summarize")
    IN  IF url # <<>>
        THEN IF retrieve_video_id(text)
             THEN LET t2 == Did(t1, "get_transcript_chunks")
                  IN  IF ext # "ok"
                      THEN [t2 EXCEPT !.exc =
                                Raise("Exception", <<"transcript unavailable">>)]
                      ELSE FinishCompletion(Read(t2), be, Summary)
             ELSE LET t2 == Did(t1, "get_content_from_url")
                  IN  IF ext # "ok"
                      THEN [t2 EXCEPT !.exc =
                                Raise("Exception", <<"cannot fetch website content">>)]
                      ELSE FinishCompletion(Read(t2), be, Summary)
        ELSE FinishCompletion(
                 Did([t1 EXCEPT !.prompt = Memory_get(t1.hist, t1.sys)],
                     "chat_completions"),
                 be, ChatAnswer)

\* l.89-114  free text: the model lookup comes first, then the user turn.
TryDefault(s, text, ext, be) ==
    IF s.mm = NoModel
    THEN [Start(s) EXCEPT !.exc = Raise("KeyError", <<"user_id">>)]
    ELSE
    LET t1 == Did([Start(s) EXCEPT !.hist = Memory_append(s.hist, "user", text)],
                  "append_user")
        url == get_url_from_text(text)
    IN  IF url # <<>>
        THEN IF retrieve_video_id(text)
             THEN LET t2 == Did(t1, "get_transcript_chunks")
                  IN  IF ext # "ok"
                      THEN [t2 EXCEPT !.exc =
                                Raise("Exception", <<"transcript unavailable">>)]
                      ELSE FinishCompletion(Did(t2, "summarize"), be, Summary)
             ELSE LET t2 == Did(t1, "get_content_from_url")
                  IN  IF ext # "ok"
                      THEN [t2 EXCEPT !.exc =
                                Raise("Exception", <<"cannot fetch website content">>)]
                      ELSE FinishCompletion(Did(t2, "summarize"), be, Summary)
        ELSE FinishCompletion(
                 Did([t1 EXCEPT !.prompt = Memory_get(t1.hist, t1.sys)],
                     "chat_completions"),
                 be, ChatAnswer)

\* A variant of TryText that takes '/clear' anywhere in the text for the
\* command (a containment test in place of the prefix test), and tests it first.
TryText_ClearAnywhere(s, text, valid, save, ext, be) ==
    IF \E i \in 1..Len(text) : text[i] = CmdClear THEN TryClear(s)
    ELSE IF startswith(text, <<CmdRegister>>) THEN TryRegister(s, text, valid, save)
    ELSE IF startswith(text, <<CmdHelp>>) THEN TryHelp(s)
    ELSE IF startswith(text, <<CmdSystem>>) THEN TrySystem(s, text)
    ELSE IF startswith(text, <<CmdImage>>) THEN TryImage(s, text, be)
    ELSE TryDefault(s, text, ext, be)

\* l.57-89: the prefix tests, in the order of the source.
TryText(s, text, valid, save, ext, be) ==
    IF startswith(text, <<CmdRegister>>) THEN TryRegister(s, text, valid, save)
    ELSE IF startswith(text, <<CmdHelp>>) THEN TryHelp(s)
    ELSE IF startswith(text, <<CmdSystem>>) THEN TrySystem(s, text)
    ELSE IF startswith(text, <<CmdClear>>) THEN TryClear(s)
    ELSE IF startswith(text, <<CmdImage>>) THEN TryImage(s, text, be)
    ELSE TryDefault(s, text, ext, be)

\* l.116-127: the except clauses.
ExceptText(t) ==
    IF t.exc.type = "none" THEN t
    ELSE IF t.exc.type = "ValueError" THEN [t EXCEPT !.msg = MsgInvalidToken]
    ELSE IF t.exc.type = "KeyError" THEN [t EXCEPT !.msg = MsgPleaseRegister]
    ELSE LET t1 == Did([t EXCEPT !.hist = Memory_remove(t.hist)], "remove")
         IN  IF startswith(t.exc.msg, <<"Incorrect API key provided">>)
             THEN [t1 EXCEPT !.msg = MsgReRegister]
             ELSE IF startswith(t.exc.msg, <<"That model is currently overloaded">>)
             THEN [t1 EXCEPT !.msg = MsgOverloaded]
             ELSE [t1 EXCEPT !.msg = MsgError(t.exc)]

----------------------------------------------------------------------------
(* handle_audio_message, main.py:131-155                                   *)

\* l.140-150: the try block, once the audio file is on disk.
TryAudio(s, tr, be) ==
    IF s.mm = NoModel
    THEN [Start(s) EXCEPT !.exc = Raise("ValueError", <<"Invalid API token">>)]
    ELSE
    LET t1 == Did(Start(s), "audio_transcriptions")
    IN  IF tr # "ok"
        THEN [t1 EXCEPT !.exc = Raise("Exception", ErrorMessage(tr))]
        ELSE LET t2 == Did([t1 EXCEPT !.hist =
                                Memory_append(s.hist, "user", Transcript)],
                           "append_user")
                 t3 == Did([t2 EXCEPT !.prompt = Memory_get(t2.hist, t2.sys)],
                           "chat_completions")
             IN  IF be # "ok"
                 THEN [t3 EXCEPT !.exc = Raise("Exception", ErrorMessage(be))]
                 ELSE LET t4 == Did([t3 EXCEPT !.hist =
                                         Memory_append(t3.hist, "assistant", ChatAnswer)],
                                    "append_assistant")
                      IN  [t4 EXCEPT !.msg = TextSendMessage(ChatAnswer)]

\* l.151-152: the single except clause; the history is left as it is.
ExceptAudio(t) ==
    IF t.exc.type = "none" THEN t
    ELSE [t EXCEPT !.msg = MsgAudioError(t.exc)]

----------------------------------------------------------------------------
(* The handlers as actions *)

\* A variant of Commit whose memory.remove empties the whole memory, every
\* user's history with it.
Commit_RemoveAll(u, kind, text, t, replies, raised) ==
    /\ storage' = IF \E i \in 1..Len(t.trace) : t.trace[i] = "remove"
                  THEN [v \in Users |-> <<>>]
                  ELSE [storage EXCEPT ![u] = t.hist]
    /\ system_messages' = [system_messages EXCEPT ![u] = t.sys]
    /\ model_management' = [model_management EXCEPT ![u] = t.mm]
    /\ db' = [db EXCEPT ![u] = t.db]
    /\ ev' = [kind |-> kind, user |-> u, text |-> text, exc |-> t.exc,
              msg |-> t.msg, replies |-> replies, raised |-> raised,
              trace |-> t.trace, prompt |-> t.prompt]
    /\ UNCHANGED <<appended, threads>>

\* The handler's effects on the tables, and the record of the event.
Commit(u, kind, text, t, replies, raised) ==
    /\ storage' = [storage EXCEPT ![u] = t.hist]
    /\ system_messages' = [system_messages EXCEPT ![u] = t.sys]
    /\ model_management' = [model_management EXCEPT ![u] = t.mm]
    /\ db' = [db EXCEPT ![u] = t.db]
    /\ ev' = [kind |-> kind, user |-> u, text |-> text, exc |-> t.exc,
              msg |-> t.msg, replies |-> replies, raised |-> raised,
              trace |-> t.trace, prompt |-> t.prompt]
    /\ UNCHANGED <<appended, threads>>

\* l.52-129: try, except, then line_bot_api.reply_message(reply_token, msg).
handle_text_message(u, text, valid, save, ext, be) ==
    LET s == Session(u)
        t == ExceptText(TryText(s, text, valid, save, ext, be))
    IN  Commit(u, "text", text, Did(t, "reply"), 1, FALSE)

\* l.132-155: the content download and the file write come before the try;
\* when they fail the exception leaves the handler and nothing is replied.
handle_audio_message(u, fetch, tr, be) ==
    LET s == Session(u)
    IN  IF fetch # "ok"
        THEN Commit(u, "audio", <<>>,
                    [Did(Start(s), "get_message_content")
                        EXCEPT !.exc = Raise("Exception", <<"content download failed">>)],
                    0, TRUE)
        ELSE LET t0 == ExceptAudio(TryAudio(s, tr, be))
                 t == [t0 EXCEPT !.trace = <<"get_message_content">> \o @]
             IN  Commit(u, "audio", <<>>, Did(Did(t, "os.remove"), "reply"),
                        1, FALSE)

----------------------------------------------------------------------------
(* Start-up, main.py:32-37 and 161-173: empty memory; the model table is   *)
(* built from whatever the Credential Store holds.                         *)

StoredData == {[u \in Users |-> NoModel], [u \in Users |-> <<"sk-1">>]}

\* The request threads of app.run (l.175); each is idle until an event arrives.
Threads == {"w1", "w2"}
Idle(n) == [pc |-> "idle", user |-> "", text |-> <<>>, be |-> "", n |-> n]

Init ==
    /\ storage = [u \in Users |-> <<>>]
    /\ system_messages = [u \in Users |-> DEFAULT_SYSTEM_MESSAGE]
    /\ db \in StoredData
    /\ model_management = db
    /\ ev = [kind |-> "none", user |-> "", text |-> <<>>, exc |-> NoExc,
             msg |-> NoMsg, replies |-> 0, raised |-> FALSE, trace |-> <<>>,
             prompt |-> <<>>]
    /\ appended = [u \in Users |-> <<>>]
    /\ threads = [w \in Threads |-> Idle(0)]

\* The outcomes of the collaborators are drawn for the calls a text can lead
\* to; a call that is never made has no outcome to choose.
ValidOutcomes(text) == IF startswith(text, <<CmdRegister>>) THEN BOOLEAN ELSE {TRUE}
SaveOutcomes(text, valid) ==
    IF startswith(text, <<CmdRegister>>) /\ valid THEN {"ok", "fail"} ELSE {"ok"}
ExtractOutcomes(text) == IF get_url_from_text(text) # <<>> THEN {"ok", "fail"} ELSE {"ok"}
CallOutcomes(text, ext) ==
    IF \/ \E c \in {CmdRegister, CmdHelp, CmdSystem, CmdClear} : startswith(text, <<c>>)
       \/ ext # "ok"
    THEN {"ok"} ELSE BackendOutcomes

TextEvent ==
    \E u \in Users : \E text \in TextsOf(u) :
    \E valid \in ValidOutcomes(text), ext \in ExtractOutcomes(text) :
    \E save \in SaveOutcomes(text, valid), be \in CallOutcomes(text, ext) :
        handle_text_message(u, text, valid, save, ext, be)

AudioEvent ==
    \E u \in AudioUsers, fetch \in {"ok", "fail"} :
    \E tr \in IF fetch = "ok" THEN {"ok", "other"} ELSE {"ok"} :
    \E be \in IF fetch = "ok" /\ tr = "ok" THEN BackendOutcomes ELSE {"ok"} :
        handle_audio_message(u, fetch, tr, be)

Next == TextEvent \/ AudioEvent

Spec == Init /\ [][Next]_vars

----------------------------------------------------------------------------
(* The Memory operations on their own: every sequence of append, remove    *)
(* and change_system_message calls, up to MaxAppends appends since the     *)
(* last clear.  The n-th turn appended since the last clear carries the    *)
(* n-th letter.                                                            *)

Letters == <<"a", "b", "c", "d", "e", "f", "g", "h">>

MemAppend ==
    \E u \in Users, role \in {"user", "assistant"} :
        /\ Len(appended[u]) < MaxAppends
        /\ LET content == <<Letters[Len(appended[u]) + 1]>>
           IN  /\ storage' = [storage EXCEPT ![u] = Memory_append(@, role, content)]
               /\ appended' = [appended EXCEPT ![u] = Append(@, Entry(role, content))]
        /\ UNCHANGED <<system_messages, model_management, db, ev, threads>>

MemRemove ==
    \E u \in Users :
        /\ storage' = [storage EXCEPT ![u] = Memory_remove(@)]
        /\ appended' = [appended EXCEPT ![u] = <<>>]
        /\ UNCHANGED <<system_messages, model_management, db, ev, threads>>

MemChangeSystem ==
    \E u \in Users :
        /\ system_messages' = [system_messages EXCEPT
                                  ![u] = Memory_change_system_message(@, <<"pirate">>)]
        /\ UNCHANGED <<storage, appended, model_management, db, ev, threads>>

NextMem == MemAppend \/ MemRemove \/ MemChangeSystem

SpecMem == Init /\ [][NextMem]_vars

----------------------------------------------------------------------------
(* Vocabulary of the properties *)

\* The last event was handled by the given handler.
IsText(e) == e.kind = "text"
IsAudio(e) == e.kind = "audio"

\* A text matching no command prefix.
IsFreeText(text) ==
    ~ \E c \in {CmdRegister, CmdHelp, CmdSystem, CmdClear, CmdImage} :
        startswith(text, <<c>>)

\* The calls to the generation backend and to the extractors.
BackendCalls ==
    {"check_token_valid", "image_generations", "chat_completions", "summarize",
     "audio_transcriptions", "get_transcript_chunks", "get_content_from_url"}

Invoked(e, calls) == \E i \in 1..Len(e.trace) : e.trace[i] \in calls

Count(e, what) == Cardinality({i \in 1..Len(e.trace) : e.trace[i] = what})

\* The failure classes of section 7, read off the exception the try block raised.
ExtractionFailed(e) ==
    /\ e.exc.type = "Exception"
    /\ e.exc.msg \in {<<"transcript unavailable">>, <<"cannot fetch website content">>}

AuthError(e) ==
    /\ e.exc.type = "Exception"
    /\ startswith(e.exc.msg, <<"Incorrect API key provided">>)

OverloadError(e) ==
    /\ e.exc.type = "Exception"
    /\ startswith(e.exc.msg, <<"That model is currently overloaded">>)

Unclassified(e) ==
    /\ e.exc.type = "Exception"
    /\ ~ AuthError(e) /\ ~ OverloadError(e) /\ ~ ExtractionFailed(e)

IsSuffix(a, b) ==
    /\ Len(a) <= Len(b)
    /\ a = SubSeq(b, Len(b) - Len(a) + 1, Len(b))

Roles(h) == [i \in 1..Len(h) |-> h[i].role]

----------------------------------------------------------------------------
(* C1 .. C10 *)

\* C1: every handled event, text or audio, ends with exactly one reply sent
\* and with no exception leaving the handler.
C1_ExactlyOneReply ==
    ev.kind # "none" =>
        /\ ev.replies = 1
        /\ Count(ev, "reply") = 1
        /\ ~ ev.raised

\* C2: after any sequence of append calls, get(userId) has at most 2K+1 = 5
\* entries, the first one the system entry, and the others are a suffix of
\* the appended sequence.
C2_BoundedSuffix ==
    \A u \in Users :
        LET g == Memory_get(storage[u], system_messages[u])
        IN  /\ Len(g) <= 2 * 2 + 1
            /\ g[1] = Entry("system", system_messages[u])
            /\ IsSuffix(Tail(g), appended[u])

\* C2 witness: an append has evicted turns and the most recent ones remain.
C2_Witness ==
    \E u \in Users :
        /\ Len(appended[u]) = 5
        /\ Len(storage[u]) = 3
        /\ storage[u][3] = appended[u][5]

\* C3: appending user a, assistant b, user c, assistant d, user e leaves
\* get = [system, user c, assistant d, user e]; turns are always dropped two
\* at a time (the oldest exchange), never one.
C3_OldestPairDropped ==
    \A u \in Users :
        /\ (Len(appended[u]) - Len(storage[u])) % 2 = 0
        /\ Roles(appended[u]) = <<"user", "assistant", "user", "assistant", "user">>
            => Memory_get(storage[u], system_messages[u]) =
                 << Entry("system", system_messages[u]), Entry("user", <<"c">>),
                    Entry("assistant", <<"d">>), Entry("user", <<"e">>) >>

\* C3 witness: the five appends of the scenario have been made.
C3_Witness ==
    \E u \in Users :
        /\ Roles(appended[u]) = <<"user", "assistant", "user", "assistant", "user">>
        /\ appended[u][5].content = <<"e">>
        /\ Len(storage[u]) = 3

\* C4: a '/register' whose token fails validation changes nothing (binding,
\* Credential Store, history, system instruction) and replies the
\* invalid-token message.
C4_InvalidRegisterNoChange ==
    [][ ( /\ IsText(ev')
          /\ startswith(ev'.text, <<CmdRegister>>)
          /\ ev'.exc.type = "ValueError" )
        => /\ model_management' = model_management
           /\ db' = db
           /\ storage' = storage
           /\ system_messages' = system_messages
           /\ ev'.msg = MsgInvalidToken
           /\ ~ Invoked(ev', {"bind", "save"}) ]_vars

\* C4 witness: an invalid token was refused for a user who holds a binding to
\* another token and a history.
C4_Witness ==
    /\ IsText(ev)
    /\ startswith(ev.text, <<CmdRegister>>)
    /\ ev.exc.type = "ValueError"
    /\ model_management[ev.user] \in Tokens
    /\ model_management[ev.user] # AfterPrefix(ev.text)
    /\ db[ev.user] = model_management[ev.user]
    /\ storage[ev.user] # <<>>

\* C5: free text from a user with no binding is answered with the
\* unregistered-user message; the binding stays absent, no backend is called
\* and the history is unchanged.
C5_UnregisteredFreeText ==
    [][ ( /\ IsText(ev')
          /\ IsFreeText(ev'.text)
          /\ model_management[ev'.user] = NoModel )
        => /\ ev'.msg = MsgPleaseRegister
           /\ model_management'[ev'.user] = NoModel
           /\ ~ Invoked(ev', BackendCalls)
           /\ storage' = storage ]_vars

\* C5 witness: the scenario of the specification: "hello" from an
\* unregistered user with an empty history.
C5_Witness ==
    /\ IsText(ev)
    /\ ev.text = <<"hello">>
    /\ ev.msg = MsgPleaseRegister
    /\ model_management[ev.user] = NoModel
    /\ storage[ev.user] = <<>>

\* C6: a command that requires a binding ('/image', free text, audio) from a
\* user with none leaves that user's history as it was.
C6_UnregisteredNoHistoryChange ==
    [][ ( /\ \/ IsAudio(ev') /\ ~ ev'.raised
             \/ IsText(ev') /\ (IsFreeText(ev'.text)
                                 \/ startswith(ev'.text, <<CmdImage>>))
          /\ model_management[ev'.user] = NoModel )
        => storage'[ev'.user] = storage[ev'.user] ]_vars

\* C7: when extraction fails for a registered user's URL text, the failure is
\* reported in the reply and the history is what it was before the event.
C7_ExtractionFailureKeepsHistory ==
    [][ ( /\ IsText(ev')
          /\ IsFreeText(ev'.text)
          /\ model_management[ev'.user] # NoModel
          /\ ExtractionFailed(ev') )
        => /\ ev'.msg = MsgError(ev'.exc)
           /\ storage'[ev'.user] = storage[ev'.user] ]_vars

\* C8: an authentication or overload error of a backend call made by
\* handle_text_message for a registered user is answered with the
\* re-register / transient-failure message and the turns retained before the
\* event are still retained (the history is what it was, or what it was plus
\* the event's own user turn).
C8_AnticipatedErrorKeepsHistory ==
    [][ ( /\ IsText(ev')
          /\ model_management[ev'.user] # NoModel
          /\ (AuthError(ev') \/ OverloadError(ev')) )
        => /\ AuthError(ev') => ev'.msg = MsgReRegister
           /\ OverloadError(ev') => ev'.msg = MsgOverloaded
           /\ \/ storage'[ev'.user] = storage[ev'.user]
              \/ \E content \in {ev'.text, AfterPrefix(ev'.text)} :
                    storage'[ev'.user] =
                        Memory_append(storage[ev'.user], "user", content) ]_vars

\* C9: after an unclassified backend or runtime failure in either handler the
\* reply is the generic error message and the user's history is empty
\* (get returns the system entry alone).
C9_UnclassifiedFailureClears ==
    ( /\ ev.kind \in {"text", "audio"}
      /\ ~ ev.raised
      /\ Unclassified(ev) )
    => /\ ev.msg \in {MsgError(ev.exc), MsgAudioError(ev.exc)}
       /\ storage[ev.user] = <<>>
       /\ Memory_get(storage[ev.user], system_messages[ev.user]) =
            << Entry("system", system_messages[ev.user]) >>

\* C10: when '/image' of a registered user fails in the image capability, the
\* reply carries the error and the history is the one before the event plus
\* the prompt as a user turn: not cleared, no assistant turn.
C10_ImageFailureKeepsHistory ==
    [][ ( /\ IsText(ev')
          /\ startswith(ev'.text, <<CmdImage>>)
          /\ model_management[ev'.user] # NoModel
          /\ ev'.exc.type = "Exception" )
        => /\ ev'.msg \in {MsgError(ev'.exc), MsgReRegister, MsgOverloaded}
           /\ storage'[ev'.user] =
                Memory_append(storage[ev'.user], "user", AfterPrefix(ev'.text)) ]_vars

----------------------------------------------------------------------------
(* C11 .. C20 *)

\* C11: after a '/clear' event, whatever the prior state and with or without
\* a binding, get(userId) is the system entry alone (carrying the user's
\* current system instruction), the reply is the acknowledgement, and the
\* binding, the stored credential and the system instruction are unchanged.
C11_ClearLeavesSystemEntryOnly ==
    [][ ( /\ IsText(ev')
          /\ startswith(ev'.text, <<CmdClear>>) )
        => /\ Memory_get(storage'[ev'.user], system_messages'[ev'.user]) =
                << Entry("system", system_messages[ev'.user]) >>
           /\ ev'.msg = MsgCleared
           /\ ev'.exc = NoExc
           /\ model_management' = model_management
           /\ db' = db
           /\ system_messages' = system_messages ]_vars

\* C11 witness: '/clear' was handled for a user who holds a binding and a
\* system instruction of their own.
C11_Witness ==
    /\ IsText(ev)
    /\ startswith(ev.text, <<CmdClear>>)
    /\ storage[ev.user] = <<>>
    /\ model_management[ev.user] \in Tokens
    /\ system_messages[ev.user] = <<"pirate">>

\* The event is a '/system' command of user u.
IsSystemEventOf(e, u) ==
    IsText(e) /\ startswith(e.text, <<CmdSystem>>) /\ e.user = u

\* C12: '/system <text>' succeeds with or without a binding and makes <text>
\* the system entry heading get(userId); every other event (appends, evicting
\* appends, '/clear', failures) leaves that entry as it is.
C12_SystemInstructionPersists ==
    [][ \A u \in Users :
          /\ IsSystemEventOf(ev', u)
               => /\ ev'.exc = NoExc
                  /\ ev'.msg = MsgSystemUpdated
                  /\ system_messages'[u] = AfterPrefix(ev'.text)
                  /\ Memory_get(storage'[u], system_messages'[u])[1] =
                        Entry("system", AfterPrefix(ev'.text))
          /\ ~ IsSystemEventOf(ev', u)
               => /\ system_messages'[u] = system_messages[u]
                  /\ Memory_get(storage'[u], system_messages'[u])[1] =
                        Entry("system", system_messages[u]) ]_vars

\* C12 witness: a user who never registered has set the instruction, and a
\* later event has appended a turn below it.
C12_Witness ==
    /\ IsText(ev)
    /\ ~ startswith(ev.text, <<CmdSystem>>)
    /\ Invoked(ev, {"append_user"})
    /\ model_management[ev.user] = NoModel
    /\ Memory_get(storage[ev.user], system_messages[ev.user])[1] =
          Entry("system", <<"pirate">>)
    /\ Len(storage[ev.user]) >= 1

DefaultTracesOk ==
    { <<"append_user", "chat_completions", "append_assistant", "reply">>,
      <<"append_user", "get_transcript_chunks", "summarize", "append_assistant", "reply">>,
      <<"append_user", "get_content_from_url", "summarize", "append_assistant", "reply">> }

DefaultTracesFailed ==
    { <<"append_user", "chat_completions", "remove", "reply">>,
      <<"append_user", "get_transcript_chunks", "remove", "reply">>,
      <<"append_user", "get_content_from_url", "remove", "reply">>,
      <<"append_user", "get_transcript_chunks", "summarize", "remove", "reply">>,
      <<"append_user", "get_content_from_url", "summarize", "remove", "reply">> }

\* C14: for a registered user's free text the user turn is appended first,
\* then the backend is invoked (chat completion over the system instruction
\* plus the history that already holds the new user turn, or the content
\* router for a URL), then, on success only, the assistant turn is appended,
\* then the reply carrying that same text is sent; a failed invocation never
\* appends an assistant turn.
C14_DefaultPathOrder ==
    [][ ( /\ IsText(ev')
          /\ IsFreeText(ev'.text)
          /\ model_management[ev'.user] # NoModel )
        => LET u == ev'.user
               h1 == Memory_append(storage[u], "user", ev'.text)
           IN  /\ ev'.replies = 1
               /\ ev'.exc = NoExc
                    => /\ ev'.trace \in DefaultTracesOk
                       /\ ev'.msg.type = "text"
                       /\ storage'[u] = Memory_append(h1, "assistant", ev'.msg.text)
               /\ ev'.exc # NoExc
                    => /\ ev'.trace \in DefaultTracesFailed
                       /\ ~ Invoked(ev', {"append_assistant"})
                       /\ storage'[u] \in {h1, <<>>}
               /\ Invoked(ev', {"chat_completions"})
                    => ev'.prompt = Memory_get(h1, system_messages[u]) ]_vars

\* C14 witness: a chat completion over the system entry, an earlier exchange
\* and the new user turn succeeded; its text is both the last turn and the
\* reply.
C14_Witness ==
    /\ IsText(ev)
    /\ ev.text = <<"hello">>
    /\ ev.exc = NoExc
    /\ Len(ev.prompt) = 4
    /\ ev.prompt[4] = Entry("user", <<"hello">>)
    /\ Len(storage[ev.user]) = 4
    /\ storage[ev.user][4] = Entry("assistant", ev.msg.text)

----------------------------------------------------------------------------
(* The default branch of handle_text_message line by line, run by the      *)
(* request threads of the server (app.run, l.175, serves each delivery on  *)
(* a thread of its own; main.py takes no lock).  Each memory call is taken *)
(* as one indivisible step; a thread may be overtaken between two of them, *)
(* in particular while it waits for the backend.  The answer to a text     *)
(* names the text, so that a turn can be traced to its event.              *)

ThreadTexts == {<<"hello">>, <<"hi">>}
AnswerTo(text) == <<"answer to">> \o text

\* l.52-54, 90-91: the event arrives; model lookup, then the user turn.
ThreadAppendUser ==
    \E w \in Threads, u \in Users, text \in ThreadTexts :
        /\ threads[w].pc = "idle"
        /\ threads[w].n < MaxRequests
        /\ IF model_management[u] = NoModel
           THEN /\ threads' = [threads EXCEPT ![w] = Idle(threads[w].n + 1)]
                /\ UNCHANGED storage
           ELSE /\ storage' = [storage EXCEPT ![u] = Memory_append(@, "user", text)]
                /\ threads' = [threads EXCEPT ![w] =
                       [pc |-> "l107", user |-> u, text |-> text, be |-> "",
                        n |-> threads[w].n + 1]]
        /\ UNCHANGED <<system_messages, model_management, db, ev, appended>>

\* l.107: chat_completions returns its tri-state result.
ThreadBackend ==
    \E w \in Threads, be \in {"ok", "other"} :
        /\ threads[w].pc = "l107"
        /\ threads' = [threads EXCEPT ![w].pc = "l109", ![w].be = be]
        /\ UNCHANGED <<storage, system_messages, model_management, db, ev, appended>>

\* l.109-114 and 129 on success; l.110, 120-127 and 129 on failure.
ThreadFinish ==
    \E w \in Threads :
        /\ threads[w].pc = "l109"
        /\ LET u == threads[w].user
           IN  storage' = [storage EXCEPT ![u] =
                   IF threads[w].be = "ok"
                   THEN Memory_append(@, "assistant", AnswerTo(threads[w].text))
                   ELSE Memory_remove(@)]
        /\ threads' = [threads EXCEPT ![w] = Idle(threads[w].n)]
        /\ UNCHANGED <<system_messages, model_management, db, ev, appended>>

NextThreads == ThreadAppendUser \/ ThreadBackend \/ ThreadFinish

SpecThreads == Init /\ [][NextThreads]_vars

\* Every user turn is directly followed by the answer to it.
Paired(h) ==
    /\ Len(h) % 2 = 0
    /\ \A i \in 1..Len(h) :
          i % 2 = 1 =>
             /\ h[i].role = "user"
             /\ h[i + 1] = Entry("assistant", AnswerTo(h[i].content))

\* C15: events of one user handled concurrently are serialized: once the
\* threads are done the history is one a sequential order of the events
\* produces (only whole exchanges, each user turn directly followed by its
\* own assistant turn, at most 2K entries).
C15_SameUserEventsSerialized ==
    (\A w \in Threads : threads[w].pc = "idle")
        => \A u \in Users :
              /\ Paired(storage[u])
              /\ Len(storage[u]) <= 2 * memory_message_count

\* The case of a text: the first command prefix it starts with, in the order
\* register, help, system, clear, image; "default" when it starts with none.
CaseOf(text) ==
    IF startswith(text, <<CmdRegister>>) THEN "register"
    ELSE IF startswith(text, <<CmdHelp>>) THEN "help"
    ELSE IF startswith(text, <<CmdSystem>>) THEN "system"
    ELSE IF startswith(text, <<CmdClear>>) THEN "clear"
    ELSE IF startswith(text, <<CmdImage>>) THEN "image"
    ELSE "default"

\* The side effects of each case, in order, the except clause's included.
RegisterTraces ==
    { <<"check_token_valid", "reply">>,
      <<"check_token_valid", "bind", "save", "reply">>,
      <<"check_token_valid", "bind", "save", "remove", "reply">> }

ImageTraces ==
    { <<"append_user", "reply">>,
      <<"append_user", "image_generations", "append_assistant", "reply">>,
      <<"append_user", "image_generations", "remove", "reply">> }

DefaultTraces == { <<"reply">> } \cup DefaultTracesOk \cup DefaultTracesFailed

TracesOf(case) ==
    CASE case = "register" -> RegisterTraces
      [] case = "help" -> { <<"reply">> }
      [] case = "system" -> { <<"change_system_message", "reply">> }
      [] case = "clear" -> { <<"remove", "reply">> }
      [] case = "image" -> ImageTraces
      [] OTHER -> DefaultTraces

\* C16: a text event takes the case of the first prefix it starts with
\* (register, help, system, clear, image, else default) and shows that case's
\* effects only; a text starting with no command prefix takes the default
\* path; '/help' replies the static summary and changes no session state.
C16_PrefixDispatch ==
    [][ IsText(ev')
        => \A case \in {CaseOf(ev'.text)} :
               /\ ev'.trace \in TracesOf(case)
               /\ IsFreeText(ev'.text) <=> case = "default"
               /\ case = "help"
                    => /\ ev'.msg = MsgHelp
                       /\ storage' = storage
                       /\ system_messages' = system_messages
                       /\ model_management' = model_management
                       /\ db' = db
               /\ case = "system" => ev'.msg = MsgSystemUpdated
               /\ case = "clear" => ev'.msg = MsgCleared
               /\ case = "default" /\ ev'.trace = <<"reply">>
                    => ev'.msg = MsgPleaseRegister
               /\ case # "system" => system_messages' = system_messages
               /\ case # "register" => model_management' = model_management /\ db' = db
               /\ case \in {"help", "system"} => storage' = storage ]_vars

\* C16 witness: a text that starts with '/help' and also holds '/clear' was
\* answered with the summary, and the user's history is still there.
C16_Witness ==
    /\ IsText(ev)
    /\ ev.text = <<CmdHelp, CmdClear>>
    /\ ev.msg = MsgHelp
    /\ storage[ev.user] # <<>>

\* A registered user's free text that holds a URL was read and summarized.
UrlSummarized(e) ==
    /\ IsText(e)
    /\ IsFreeText(e.text)
    /\ get_url_from_text(e.text) # <<>>
    /\ e.exc = NoExc
    /\ Invoked(e, {"summarize"})

\* C17: when a registered user's free text holds a URL and the page or video
\* is read and summarized, the history gains exactly the user's text followed
\* by the final summary as the assistant turn (two appends, nothing else
\* touches the history), and exactly one reply carrying that summary is sent.
C17_UrlSummaryAppendsTwoTurns ==
    [][ ( UrlSummarized(ev') /\ model_management[ev'.user] # NoModel )
        => LET u == ev'.user
           IN  /\ storage'[u] =
                    Memory_append(Memory_append(storage[u], "user", ev'.text),
                                  "assistant", Summary)
               /\ Count(ev', "append_user") = 1
               /\ Count(ev', "append_assistant") = 1
               /\ ~Invoked(ev', {"remove", "chat_completions"})
               /\ ev'.msg = TextSendMessage(Summary)
               /\ ev'.replies = 1
               /\ Count(ev', "reply") = 1 ]_vars

\* C17 witness: a video link and a page link have both been summarized; the
\* history of the user ends with the text and the summary.
C17_Witness ==
    /\ UrlSummarized(ev)
    /\ ~retrieve_video_id(ev.text)
    /\ Len(storage[ev.user]) >= 4
    /\ storage[ev.user][Len(storage[ev.user]) - 1] = Entry("user", ev.text)
    /\ storage[ev.user][Len(storage[ev.user])] = Entry("assistant", Summary)
    /\ storage[ev.user][Len(storage[ev.user]) - 3] = Entry("user", <<"see", YoutubeUrl>>)

\* A history of alternating turns that starts with a user turn.
Alternating(h) ==
    \A i \in 1..Len(h) : h[i].role = (IF i % 2 = 1 THEN "user" ELSE "assistant")

\* C18: at rest (between two events of the sequential specification) each
\* user's history alternates user and assistant turns and starts with a user
\* turn: never two consecutive user turns.
C18_HistoryAlternatesAtRest ==
    \A u \in Users : Alternating(storage[u])

\* C19: at rest every user with a model binding has a stored credential equal
\* to the token the binding was built from (so a '/register' whose save fails
\* leaves the binding as it was).
C19_BindingMatchesStore ==
    \A u \in Users :
        model_management[u] # NoModel => db[u] = model_management[u]

\* C20: an event of user u, whatever its kind and outcome, leaves every other
\* user's history, system instruction, model binding and stored credential
\* unchanged, and never removes u's own model binding once it exists.
C20_OtherUsersUntouched ==
    [][ ev'.kind # "none"
        => /\ \A v \in Users \ {ev'.user} :
                /\ storage'[v] = storage[v]
                /\ system_messages'[v] = system_messages[v]
                /\ model_management'[v] = model_management[v]
                /\ db'[v] = db[v]
           /\ model_management[ev'.user] # NoModel
                => model_management'[ev'.user] # NoModel ]_vars

\* C20 witness: an event of u1 failed and cleared u1's history while u2, bound
\* and with a history of its own, kept both; u1 is still bound.
C20_Witness ==
    /\ ev.user = "u1"
    /\ ev.exc # NoExc
    /\ Invoked(ev, {"remove"})
    /\ storage["u1"] = <<>>
    /\ model_management["u1"] # NoModel
    /\ storage["u2"] # <<>>
    /\ model_management["u2"] # NoModel
    /\ db["u2"] = model_management["u2"]

====
